---- MODULE Spec2Model ----
(***************************************************************************)
(* Model of fix-standarderrorwrapper-python.py: the batch rewrite of       *)
(* StandardErrorWrapper call sites.                                        *)
(*                                                                         *)
(* Text is modelled as a sequence of lexemes (strings): every punctuation  *)
(* character the script's patterns look at is a lexeme of its own, and a   *)
(* word is a lexeme that contains none of them.  Substring tests, string   *)
(* replacement, splitting, stripping and the regular expression are        *)
(* computed on these sequences exactly as Python computes them on the      *)
(* characters.                                                             *)
(***************************************************************************)
EXTENDS Integers, Sequences, FiniteSets, TLC

\* ------------------------------------------------------------------------
\* Lexical classes
\* ------------------------------------------------------------------------

\* The marker searched by grep and by fix_file.
Marker == "StandardErrorWrapper"

\* Characters matched by \s and removed by str.strip().
Whitespace == {" ", "\n", "\t"}

\* The backtick character (it cannot be written inside a TLA+ string).
Backtick == "<backtick>"

\* The character class of the three quote characters in the pattern.
Quotes == {"'", "\"", Backtick}

\* The '\\n' of a non-raw Python literal: a backslash followed by n.
BackslashN == "\\n"

\* ------------------------------------------------------------------------
\* String primitives of Python, on lexeme sequences
\* ------------------------------------------------------------------------

\* s[i:i+len(sub)] == sub
IsAt(s, sub, i) ==
    /\ i >= 1
    /\ i + Len(sub) - 1 <= Len(s)
    /\ \A k \in 1..Len(sub) : s[i + k - 1] = sub[k]

\* sub in s
Contains(s, sub) == \E i \in 1..(Len(s) + 1) : IsAt(s, sub, i)

\* s.count(sub): non-overlapping occurrences, left to right
RECURSIVE CountFrom(_, _, _)
CountFrom(s, sub, i) ==
    IF i > Len(s) THEN 0
    ELSE IF IsAt(s, sub, i) THEN 1 + CountFrom(s, sub, i + Len(sub))
    ELSE CountFrom(s, sub, i + 1)

Count(s, sub) == CountFrom(s, sub, 1)

\* s.replace(old, new): every non-overlapping occurrence, left to right
RECURSIVE ReplaceFrom(_, _, _, _)
ReplaceFrom(s, old, new, i) ==
    IF i > Len(s) THEN <<>>
    ELSE IF IsAt(s, old, i) THEN new \o ReplaceFrom(s, old, new, i + Len(old))
    ELSE <<s[i]>> \o ReplaceFrom(s, old, new, i + 1)

Replace(s, old, new) == ReplaceFrom(s, old, new, 1)

\* s.strip()
RECURSIVE LStrip(_)
LStrip(s) ==
    IF s # <<>> /\ Head(s) \in Whitespace THEN LStrip(Tail(s)) ELSE s

RECURSIVE RStrip(_)
RStrip(s) ==
    IF s # <<>> /\ s[Len(s)] \in Whitespace
    THEN RStrip(SubSeq(s, 1, Len(s) - 1)) ELSE s

Strip(s) == RStrip(LStrip(s))

\* s.split(sep) for a one-lexeme separator: the list of pieces
RECURSIVE SplitFrom(_, _, _, _)
SplitFrom(s, sep, i, piece) ==
    IF i > Len(s) THEN <<piece>>
    ELSE IF s[i] = sep THEN <<piece>> \o SplitFrom(s, sep, i + 1, <<>>)
    ELSE SplitFrom(s, sep, i + 1, Append(piece, s[i]))

Split(s, sep) == SplitFrom(s, sep, 1, <<>>)

\* [f.strip() for f in pieces if f.strip()]
RECURSIVE StripNonEmpty(_)
StripNonEmpty(pieces) ==
    IF pieces = <<>> THEN <<>>
    ELSE IF Strip(Head(pieces)) # <<>>
         THEN <<Strip(Head(pieces))>> \o StripNonEmpty(Tail(pieces))
         ELSE StripNonEmpty(Tail(pieces))

\* ------------------------------------------------------------------------
\* ERROR_CODE_MAPPING
\* ------------------------------------------------------------------------

ERROR_CODE_MAPPING ==
    ("EVENTBUS_ERROR" :> "VALIDATION_ERROR") @@
    ("UI_OPERATION_FAILED" :> "OPERATION_ERROR") @@
    ("VALIDATION_FAILED" :> "VALIDATION_ERROR") @@
    ("NETWORK_TIMEOUT" :> "TIMEOUT_ERROR") @@
    ("STORAGE_FAILED" :> "STORAGE_ERROR") @@
    ("CHROME_API_ERROR" :> "CHROME_ERROR") @@
    ("DOM_MANIPULATION_ERROR" :> "DOM_ERROR") @@
    ("FILE_OPERATION_ERROR" :> "FILE_ERROR") @@
    ("PERMISSION_DENIED" :> "PERMISSION_ERROR") @@
    ("PARSE_FAILED" :> "PARSE_ERROR") @@
    ("CONNECTION_FAILED" :> "CONNECTION_ERROR") @@
    ("CONFIG_INVALID" :> "CONFIG_ERROR") @@
    ("RENDER_FAILED" :> "RENDER_ERROR") @@
    ("PERFORMANCE_ISSUE" :> "PERFORMANCE_ERROR") @@
    ("UNKNOWN_ERROR" :> "UNKNOWN_ERROR") @@
    ("READMOO_API_ERROR" :> "READMOO_ERROR") @@
    ("BOOK_PROCESSING_ERROR" :> "BOOK_ERROR") @@
    ("INVALID_DATA_FORMAT" :> "VALIDATION_ERROR")

\* ERROR_CODE_MAPPING.get(error_code, 'UNKNOWN_ERROR'): the key is the
\* whole stripped group, so only a one-lexeme group can be a key.
MappingGet(error_code) ==
    IF Len(error_code) = 1 /\ error_code[1] \in DOMAIN ERROR_CODE_MAPPING
    THEN ERROR_CODE_MAPPING[error_code[1]]
    ELSE "UNKNOWN_ERROR"

\* ------------------------------------------------------------------------
\* add_errorcode_import
\* ------------------------------------------------------------------------

RequireStandardError ==
    <<"require", "(", "'", "src/core/errors/StandardError", "'", ")">>

RequireErrorCodes ==
    <<"require", "(", "'", "src/core/errors/ErrorCodes", "'", ")">>

ImportStandardError ==
    <<"const", " ", "{", " ", "StandardError", " ", "}", " ", "=", " ">>
        \o RequireStandardError

ImportErrorCodes ==
    <<"const", " ", "{", " ", "ErrorCodes", " ", "}", " ", "=", " ">>
        \o RequireErrorCodes

ImportBoth == ImportStandardError \o <<BackslashN>> \o ImportErrorCodes

\* add_errorcode_import without the test that ErrorCodes is already required.
add_errorcode_import_unguarded(content) ==
    IF Contains(content, RequireStandardError)
    THEN Replace(content, ImportStandardError, ImportBoth)
    ELSE content

add_errorcode_import(content) ==
    IF /\ Contains(content, RequireStandardError)
       /\ ~Contains(content, RequireErrorCodes)
    THEN Replace(content, ImportStandardError, ImportBoth)
    ELSE content

\* ------------------------------------------------------------------------
\* fix_standarderrorwrapper_calls
\* ------------------------------------------------------------------------

\* Position after the longest run of whitespace starting at i (\s*, \s+).
RECURSIVE SkipWs(_, _)
SkipWs(s, i) ==
    IF i <= Len(s) /\ s[i] \in Whitespace THEN SkipWs(s, i + 1) ELSE i

\* Position of the first lexeme of stops at or after i, Len(s)+1 if none
\* (the three negated classes of the pattern all end exactly there).
RECURSIVE RunUntil(_, _, _)
RunUntil(s, i, stops) ==
    IF i <= Len(s) /\ s[i] \notin stops THEN RunUntil(s, i + 1, stops) ELSE i

Is(s, i, t) == i <= Len(s) /\ s[i] = t
IsIn(s, i, S) == i <= Len(s) /\ s[i] \in S

NoMatch == [ok |-> FALSE, end |-> 0, g1 |-> <<>>, g2 |-> <<>>, g3 |-> <<>>]

\* The match of the pattern anchored at position i, if there is one.
\* Every quantified part is followed by a lexeme outside its class, so the
\* backtracking matcher has exactly one way to match.
MatchAt(s, i) ==
    LET w1  == SkipWs(s, i + 1)
        w2  == SkipWs(s, w1 + 1)
        q1  == SkipWs(s, w2 + 2)
        e1  == RunUntil(s, q1 + 1, Quotes)
        c1  == SkipWs(s, e1 + 1)
        q2  == SkipWs(s, c1 + 1)
        e2  == RunUntil(s, q2 + 1, Quotes)
        c2  == SkipWs(s, e2 + 1)
        b1  == SkipWs(s, c2 + 1)
        e3  == RunUntil(s, b1 + 1, {"}"})
        p   == SkipWs(s, e3 + 1)
    IN  IF /\ Is(s, i, "throw")
           /\ w1 > i + 1
           /\ Is(s, w1, "new")
           /\ w2 > w1 + 1
           /\ Is(s, w2, Marker)
           /\ Is(s, w2 + 1, "(")
           /\ IsIn(s, q1, Quotes)
           /\ e1 > q1 + 1
           /\ IsIn(s, e1, Quotes)
           /\ Is(s, c1, ",")
           /\ IsIn(s, q2, Quotes)
           /\ IsIn(s, e2, Quotes)
           /\ Is(s, c2, ",")
           /\ Is(s, b1, "{")
           /\ Is(s, e3, "}")
           /\ Is(s, p, ")")
        THEN [ok |-> TRUE, end |-> p + 1,
              g1 |-> SubSeq(s, q1 + 1, e1 - 1),
              g2 |-> SubSeq(s, q2 + 1, e2 - 1),
              g3 |-> SubSeq(s, b1 + 1, e3 - 1)]
        ELSE NoMatch

Indent == <<"\n", " ", " ", " ", " ", " ", " ">>

BlockHead == <<"const", " ", "error", " ", "=", " ", "new", " ", "Error", "(", "'">>

CodeHead == <<"error", ".", "code", " ", "=", " ", "ErrorCodes", ".">>

DetailsHead == <<"error", ".", "details", " ", "=", " ", "{", " ">>

\* replace_error: the text that replaces one match.
replace_error(m) ==
    LET error_code == Strip(m.g1)
        message == Strip(m.g2)
        details == Strip(m.g3)
        mapped_error_code == MappingGet(error_code)
    IN  BlockHead \o message \o <<"'", ")">>
        \o Indent \o CodeHead \o <<mapped_error_code>>
        \o Indent \o DetailsHead \o details \o <<" ", "}">>
        \o Indent \o <<"throw", " ", "error">>

\* re.sub(pattern, replace_error, content): leftmost matches, not overlapping.
RECURSIVE SubFrom(_, _)
SubFrom(s, i) ==
    IF i > Len(s) THEN <<>>
    ELSE LET m == MatchAt(s, i)
         IN  IF m.ok THEN replace_error(m) \o SubFrom(s, m.end)
             ELSE <<s[i]>> \o SubFrom(s, i + 1)

\* re.sub with count=1: only the leftmost match is replaced.
RECURSIVE SubFirstFrom(_, _)
SubFirstFrom(s, i) ==
    IF i > Len(s) THEN <<>>
    ELSE LET m == MatchAt(s, i)
         IN  IF m.ok THEN replace_error(m) \o SubSeq(s, m.end, Len(s))
             ELSE <<s[i]>> \o SubFirstFrom(s, i + 1)

fix_standarderrorwrapper_calls_first_only(content) == SubFirstFrom(content, 1)

fix_standarderrorwrapper_calls(content) == SubFrom(content, 1)

\* ------------------------------------------------------------------------
\* The source tree, the file system and the search of find/grep
\* ------------------------------------------------------------------------

\* Number of clock seconds the model distinguishes beyond the first.
MaxTime == 1

\* Number of direct calls of fix_file in the per-file specification.
MaxCalls == 1

\* Number of text segments of an input of the pure functions.
MaxSegs == 2

\* remaining_files[:10]
DisplayLimit == 10

PathAX == <<"src", "/", "a", "/", "x.js">>
PathAY == <<"src", "/", "a", "/", "y.js">>
PathBX == <<"src", "/", "b", "/", "x.js">>

\* The *.js files under src, in the order find visits them.
TraversalOrder == <<PathAX, PathAY, PathBX>>

Paths == {TraversalOrder[i] : i \in 1..Len(TraversalOrder)}

\* A path that no longer names a file.
NoFile == <<"<no file>">>

\* Python's None for a local that is not bound yet.
None == <<"<None>">>

\* Path(file_path).name: what follows the last separator.
RECURSIVE PathName(_)
PathName(p) ==
    IF \E i \in 1..Len(p) : p[i] = "/" THEN PathName(Tail(p)) ELSE p

\* stdout of find src -name '*.js' -type f -exec grep -l StandardErrorWrapper:
\* one line per file whose content has the marker.
RECURSIVE FindGrepFrom(_, _)
FindGrepFrom(disk, i) ==
    IF i > Len(TraversalOrder) THEN <<>>
    ELSE LET p == TraversalOrder[i]
         IN  (IF disk[p] # NoFile /\ Contains(disk[p], <<Marker>>)
              THEN p \o <<"\n">> ELSE <<>>)
             \o FindGrepFrom(disk, i + 1)

FindGrep(disk) == FindGrepFrom(disk, 1)

\* What subprocess.run can do: return with exit status 0, return with a
\* non-zero status, or raise FileNotFoundError because find cannot be run.
RunOutcomes == {"ok", "error", "unavailable"}

\* get_files_to_fix, given the outcome of subprocess.run: the list it
\* returns; CalledProcessError (check=True) is the only exception caught.
get_files_to_fix(disk, outcome) ==
    IF outcome = "ok" THEN StripNonEmpty(Split(FindGrep(disk), "\n"))
    ELSE <<>>

\* ------------------------------------------------------------------------
\* Source text: the segments file contents are made of
\* ------------------------------------------------------------------------

MsgEmpty == <<>>
MsgPlain == <<"timed", " ", "out">>
MsgApostrophe == <<"can", "'", "t">>

\* A deprecated call: opening and closing quote of the error code (q1) and
\* of the message (q2), the error code, the message text, and the layout
\* (spaced: arguments on new lines, padded code, non-empty details).
CallSegs ==
    [kind : {"call"}, q1 : {"'"}, q2 : Quotes,
     code : {"NETWORK_TIMEOUT", "MADE_UP_CODE"},
     msg : {MsgEmpty, MsgPlain, MsgApostrophe}, spaced : {FALSE}]
    \cup
    [kind : {"call"}, q1 : {"\"", Backtick}, q2 : {"'"},
     code : {"VALIDATION_FAILED", "UNKNOWN_ERROR"},
     msg : {MsgPlain}, spaced : {TRUE}]

Other(kind) ==
    [kind |-> kind, q1 |-> "'", q2 |-> "'", code |-> "", msg |-> <<>>,
     spaced |-> FALSE]

\* nested: a call whose details hold a nested object; text: a statement;
\* import_se, import_ec, import_sew: the destructuring require lines;
\* require_se: another way to require StandardError.
OtherSegs ==
    {Other(k) : k \in {"nested", "text", "import_se", "import_ec",
                       "import_sew", "require_se"}}

Segs == CallSegs \cup OtherSegs

CallText(d, details) ==
    <<"throw", " ", "new", " ", Marker, "(">>
    \o (IF d.spaced THEN <<"\n", " ", d.q1, " ", d.code, " ", d.q1>>
        ELSE <<d.q1, d.code, d.q1>>)
    \o <<",">> \o (IF d.spaced THEN <<"\n", " ">> ELSE <<" ">>)
    \o <<d.q2>> \o d.msg \o <<d.q2>>
    \o <<",", " ", "{">> \o details \o <<"}">>
    \o (IF d.spaced THEN <<"\n">> ELSE <<>>) \o <<")", "\n">>

SegText(d) ==
    CASE d.kind = "call" ->
           CallText(d, IF d.spaced THEN <<" ", "retry", ":", " ", "true", " ">>
                       ELSE <<>>)
      [] d.kind = "nested" ->
           CallText([d EXCEPT !.code = "PARSE_FAILED", !.msg = MsgPlain],
                    <<" ", "at", ":", " ", "{", "}", " ">>)
      [] d.kind = "text" -> <<"return", " ", "value", "\n">>
      [] d.kind = "import_se" -> ImportStandardError \o <<"\n">>
      [] d.kind = "import_ec" -> ImportErrorCodes \o <<"\n">>
      [] d.kind = "import_sew" ->
           <<"const", " ", "{", " ", Marker, " ", "}", " ", "=", " ",
             "require", "(", "'", "src/core/errors/StandardErrorWrapper",
             "'", ")", "\n">>
      [] d.kind = "require_se" ->
           <<"const", " ", "StandardError", " ", "=", " ">>
           \o RequireStandardError \o <<".", "StandardError", "\n">>

RECURSIVE Flatten(_)
Flatten(segs) ==
    IF segs = <<>> THEN <<>> ELSE SegText(Head(segs)) \o Flatten(Tail(segs))

SegLists == UNION {[1..n -> Segs] : n \in 1..MaxSegs}

\* The file contents of the runs of main and of fix_file.
FileContents ==
    LET call == [kind |-> "call", q1 |-> "'", q2 |-> "'",
                 code |-> "NETWORK_TIMEOUT", msg |-> MsgPlain,
                 spaced |-> FALSE]
    IN  { Flatten(<<call>>),
          Flatten(<<Other("import_se"), call, Other("nested")>>),
          Flatten(<<Other("nested")>>),
          Flatten(<<Other("import_se"), Other("text")>>) }

\* ------------------------------------------------------------------------
\* State
\* ------------------------------------------------------------------------

VARIABLES
    fs,                \* the files under src: path -> content, or NoFile
    backups,           \* backup_dir: (backup file name, timestamp) -> content
    now,               \* datetime.now() in whole seconds
    pc,                \* the statement that runs next
    ret,               \* where fix_file returns to
    discovery,         \* outcome of the subprocess.run of get_files_to_fix
    files_to_fix,      \* main: the list of candidates
    idx,               \* main: position of the for loop in files_to_fix
    file_path,         \* fix_file: its argument
    content,           \* fix_file: the content read; the pure functions' text
    original_content,  \* fix_file: the content read, per file
    failure,           \* fix_file: what failed for a file, per file
    result,            \* the dict fix_file returned last
    results,           \* main: the tally
    progress,          \* the files announced on the console, in order
    remaining_files,   \* main: the list of the final scan
    shown,             \* main: the entries printed by the final scan
    more,              \* main: the number printed in the overflow note, or 0
    input              \* the segments the text under transformation is made of

vars == <<fs, backups, now, pc, ret, discovery, files_to_fix, idx, file_path,
          content, original_content, failure, result, results, progress,
          remaining_files, shown, more, input>>

NoBackups == [b \in {} |-> None]

NoResult == [success |-> FALSE, complete |-> FALSE, skipped |-> FALSE,
             error |-> "none"]

Failed(msg) == [success |-> FALSE, complete |-> FALSE, skipped |-> FALSE,
                error |-> msg]

Fixed(complete) == [success |-> TRUE, complete |-> complete,
                    skipped |-> FALSE, error |-> ""]

Skipped == [success |-> TRUE, complete |-> FALSE, skipped |-> TRUE,
            error |-> ""]

NewResults(n) == [total |-> n, complete |-> 0, partial |-> 0, failed |-> 0,
                  skipped |-> 0, errors |-> <<>>]

Idle ==
    /\ backups = NoBackups
    /\ now = 0
    /\ discovery = "none"
    /\ files_to_fix = <<>>
    /\ idx = 0
    /\ file_path = None
    /\ original_content = [p \in Paths |-> None]
    /\ failure = [p \in Paths |-> "none"]
    /\ result = NoResult
    /\ results = NewResults(0)
    /\ progress = <<>>
    /\ remaining_files = <<>>
    /\ shown = <<>>
    /\ more = 0

\* The script is started on a tree of source files.
Init ==
    /\ fs \in [Paths -> FileContents]
    /\ pc = "main"
    /\ ret = "tally"
    /\ content = None
    /\ input = <<>>
    /\ Idle

\* ------------------------------------------------------------------------
\* The environment
\* ------------------------------------------------------------------------

\* A second passes.
clock_tick ==
    /\ pc \notin {"done", "crashed", "returned"}
    /\ now < MaxTime
    /\ now' = now + 1
    /\ UNCHANGED <<fs, backups, pc, ret, discovery, files_to_fix, idx,
                   file_path, content, original_content, failure, result,
                   results, progress, remaining_files, shown, more, input>>

\* A candidate that was found is removed before its turn comes.
env_delete ==
    /\ pc = "loop"
    /\ \E i \in idx..Len(files_to_fix) :
          /\ fs[files_to_fix[i]] # NoFile
          /\ fs' = [fs EXCEPT ![files_to_fix[i]] = NoFile]
    /\ UNCHANGED <<backups, now, pc, ret, discovery, files_to_fix, idx,
                   file_path, content, original_content, failure, result,
                   results, progress, remaining_files, shown, more, input>>

\* ------------------------------------------------------------------------
\* fix_file
\* ------------------------------------------------------------------------

\* Lines 94-104: announce the file, test that it exists, read it.
fix_file_read ==
    /\ pc = "fix_read"
    /\ progress' = Append(progress, file_path)
    /\ IF fs[file_path] = NoFile
       THEN /\ result' = Failed("File not found")
            /\ failure' = [failure EXCEPT ![file_path] = "missing"]
            /\ pc' = ret
            /\ UNCHANGED <<content, original_content>>
       ELSE \E ok \in BOOLEAN :
              IF ok
              THEN /\ content' = fs[file_path]
                   /\ original_content' =
                        [original_content EXCEPT ![file_path] = fs[file_path]]
                   /\ failure' = [failure EXCEPT ![file_path] = "none"]
                   /\ pc' = "fix_backup"
                   /\ UNCHANGED result
              ELSE /\ result' = Failed("read error")
                   /\ failure' = [failure EXCEPT ![file_path] = "read"]
                   /\ pc' = ret
                   /\ UNCHANGED <<content, original_content>>
    /\ UNCHANGED <<fs, backups, now, ret, discovery, files_to_fix, idx,
                   file_path, results, remaining_files, shown, more, input>>

\* backup_name of create_backup.
BackupName(path, timestamp) == <<PathName(path), timestamp>>

\* create_backup whose exception is swallowed: fix_file goes on to write.
create_backup_swallowed ==
    /\ pc = "fix_backup"
    /\ \E ok \in BOOLEAN :
          IF ok
          THEN /\ backups' = (BackupName(file_path, now) :> fs[file_path])
                                @@ backups
               /\ UNCHANGED failure
          ELSE /\ failure' = [failure EXCEPT ![file_path] = "backup"]
               /\ UNCHANGED backups
    /\ pc' = "fix_write"
    /\ UNCHANGED <<fs, now, ret, discovery, files_to_fix, idx, file_path,
                   content, original_content, progress, result, results,
                   remaining_files, shown, more, input>>

\* Lines 106-107 and create_backup: copy the file into backup_dir; an
\* exception of the copy is caught by the handler of fix_file.
create_backup ==
    /\ pc = "fix_backup"
    /\ \E ok \in BOOLEAN :
          IF ok
          THEN /\ backups' = (BackupName(file_path, now) :> fs[file_path])
                                @@ backups
               /\ pc' = "fix_write"
               /\ UNCHANGED <<result, failure>>
          ELSE /\ result' = Failed("backup error")
               /\ failure' = [failure EXCEPT ![file_path] = "backup"]
               /\ pc' = ret
               /\ UNCHANGED backups
    /\ UNCHANGED <<fs, now, ret, discovery, files_to_fix, idx, file_path,
                   content, original_content, progress, results,
                   remaining_files, shown, more, input>>

\* What open(file_path, 'w') and f.write can do: succeed, fail to open, or
\* fail after the file was truncated.
WriteOutcomes == {"ok", "open fails", "write fails"}

\* A classification that does not look for the marker again.
Classify_always_complete(written) == Fixed(TRUE)

\* The classification of a written content (lines 122-127).
Classify(written) == Fixed(~Contains(written, <<Marker>>))

\* Lines 109-130: transform, and write back when the content changed.
fix_file_write ==
    /\ pc = "fix_write"
    /\ LET new_content ==
               fix_standarderrorwrapper_calls(add_errorcode_import(content))
       IN  /\ content' = new_content
           /\ IF new_content # original_content[file_path]
              THEN \E w \in WriteOutcomes :
                     CASE w = "ok" ->
                            /\ fs' = [fs EXCEPT ![file_path] = new_content]
                            /\ result' = Classify(new_content)
                            /\ UNCHANGED failure
                       [] w = "open fails" ->
                            /\ result' = Failed("write error")
                            /\ failure' = [failure EXCEPT ![file_path] = "write"]
                            /\ UNCHANGED fs
                       [] w = "write fails" ->
                            /\ fs' = [fs EXCEPT ![file_path] = <<>>]
                            /\ result' = Failed("write error")
                            /\ failure' = [failure EXCEPT ![file_path] = "write"]
              ELSE /\ result' = Skipped
                   /\ UNCHANGED <<fs, failure>>
    /\ pc' = ret
    /\ UNCHANGED <<backups, now, ret, discovery, files_to_fix, idx, file_path,
                   original_content, progress, results, remaining_files,
                   shown, more, input>>

\* ------------------------------------------------------------------------
\* main
\* ------------------------------------------------------------------------

\* Lines 140-161: create the backup directory, find the candidates, return
\* when there are none.  An exception get_files_to_fix does not catch
\* leaves main.
main_start ==
    /\ pc = "main"
    /\ \E outcome \in RunOutcomes :
          /\ discovery' = outcome
          /\ IF outcome = "unavailable"
             THEN /\ pc' = "crashed"
                  /\ UNCHANGED <<files_to_fix, results, idx>>
             ELSE LET found == get_files_to_fix(fs, outcome)
                  IN  /\ files_to_fix' = found
                      /\ IF found = <<>>
                         THEN /\ pc' = "done"
                              /\ UNCHANGED <<results, idx>>
                         ELSE /\ pc' = "loop"
                              /\ results' = NewResults(Len(found))
                              /\ idx' = 1
    /\ backups' = NoBackups
    /\ UNCHANGED <<fs, now, ret, file_path, content, original_content,
                   failure, result, progress, remaining_files, shown, more,
                   input>>

\* Lines 164-165 and 177-188: take the next candidate and call fix_file, or
\* leave the loop and print the summary.
main_loop ==
    /\ pc = "loop"
    /\ IF idx <= Len(files_to_fix)
       THEN /\ file_path' = files_to_fix[idx]
            /\ ret' = "tally"
            /\ pc' = "fix_read"
       ELSE /\ pc' = "verify"
            /\ UNCHANGED <<file_path, ret>>
    /\ UNCHANGED <<fs, backups, now, discovery, files_to_fix, idx, content,
                   original_content, failure, result, results, progress,
                   remaining_files, shown, more, input>>

\* A tally that leaves the loop at the first failed file.
main_tally_stop_on_failure ==
    /\ pc = "tally"
    /\ results' =
         IF ~result.success
         THEN [results EXCEPT
                 !.failed = @ + 1,
                 !.errors = Append(@, [file |-> file_path,
                                       error |-> result.error])]
         ELSE IF result.skipped THEN [results EXCEPT !.skipped = @ + 1]
         ELSE IF result.complete THEN [results EXCEPT !.complete = @ + 1]
         ELSE [results EXCEPT !.partial = @ + 1]
    /\ idx' = idx + 1
    /\ pc' = IF result.success THEN "loop" ELSE "verify"
    /\ UNCHANGED <<fs, backups, now, ret, discovery, files_to_fix, file_path,
                   content, original_content, failure, result, progress,
                   remaining_files, shown, more, input>>

\* Lines 167-175: count the result of fix_file.
main_tally ==
    /\ pc = "tally"
    /\ results' =
         IF ~result.success
         THEN [results EXCEPT
                 !.failed = @ + 1,
                 !.errors = Append(@, [file |-> file_path,
                                       error |-> result.error])]
         ELSE IF result.skipped THEN [results EXCEPT !.skipped = @ + 1]
         ELSE IF result.complete THEN [results EXCEPT !.complete = @ + 1]
         ELSE [results EXCEPT !.partial = @ + 1]
    /\ idx' = idx + 1
    /\ pc' = "loop"
    /\ UNCHANGED <<fs, backups, now, ret, discovery, files_to_fix, file_path,
                   content, original_content, failure, result, progress,
                   remaining_files, shown, more, input>>

\* Lines 190-210: the final scan.  stdout is split at the two characters
\* backslash and n, the first ten entries of the list are printed, and the
\* number of the others when there are more.
main_verify ==
    /\ pc = "verify"
    /\ \E outcome \in RunOutcomes :
          IF outcome = "unavailable"
          THEN /\ pc' = "crashed"
               /\ UNCHANGED <<remaining_files, shown, more>>
          ELSE LET remaining ==
                       StripNonEmpty(Split(FindGrep(fs), BackslashN))
               IN  /\ remaining_files' = remaining
                   /\ shown' = SubSeq(remaining, 1,
                                      IF Len(remaining) < DisplayLimit
                                      THEN Len(remaining) ELSE DisplayLimit)
                   /\ more' = IF Len(remaining) > DisplayLimit
                              THEN Len(remaining) - DisplayLimit ELSE 0
                   /\ pc' = "done"
    /\ UNCHANGED <<fs, backups, now, ret, discovery, files_to_fix, idx,
                   file_path, content, original_content, failure, result,
                   results, progress, input>>

Next ==
    \/ main_start
    \/ main_loop
    \/ fix_file_read
    \/ create_backup
    \/ fix_file_write
    \/ main_tally
    \/ main_verify
    \/ clock_tick
    \/ env_delete

Spec == Init /\ [][Next]_vars

\* ------------------------------------------------------------------------
\* fix_file called on its own
\* ------------------------------------------------------------------------

InitFix ==
    /\ fs \in [Paths -> FileContents]
    /\ pc = "returned"
    /\ ret = "returned"
    /\ content = None
    /\ input = <<>>
    /\ Idle

\* fix_file(file_path, backup_dir) on any file of the tree.
call_fix_file ==
    /\ pc = "returned"
    /\ Len(progress) < MaxCalls
    /\ \E p \in Paths : file_path' = p
    /\ pc' = "fix_read"
    /\ UNCHANGED <<fs, backups, now, ret, discovery, files_to_fix, idx,
                   content, original_content, failure, result, results,
                   progress, remaining_files, shown, more, input>>

NextFix ==
    \/ call_fix_file
    \/ fix_file_read
    \/ create_backup
    \/ fix_file_write
    \/ clock_tick

SpecFix == InitFix /\ [][NextFix]_vars

\* ------------------------------------------------------------------------
\* The two transformations applied to a text
\* ------------------------------------------------------------------------

InitPure ==
    /\ input \in SegLists
    /\ content = Flatten(input)
    /\ fs = [p \in Paths |-> NoFile]
    /\ pc = "text"
    /\ ret = "text"
    /\ Idle

\* content = fix_standarderrorwrapper_calls(content)
apply_fix_calls ==
    /\ pc = "text"
    /\ content' = fix_standarderrorwrapper_calls(content)
    /\ pc' = "rewritten"
    /\ UNCHANGED <<fs, backups, now, ret, discovery, files_to_fix, idx,
                   file_path, original_content, failure, result, results,
                   progress, remaining_files, shown, more, input>>

\* content = add_errorcode_import(content), once and once again
apply_add_import ==
    /\ pc \in {"text", "imported"}
    /\ content' = add_errorcode_import(content)
    /\ pc' = IF pc = "text" THEN "imported" ELSE "imported twice"
    /\ UNCHANGED <<fs, backups, now, ret, discovery, files_to_fix, idx,
                   file_path, original_content, failure, result, results,
                   progress, remaining_files, shown, more, input>>

NextPure ==
    \/ apply_fix_calls
    \/ apply_add_import

SpecPure == InitPure /\ [][NextPure]_vars

\* ------------------------------------------------------------------------
\* Properties
\* ------------------------------------------------------------------------

\* The files fix_file has read and whose content on disk is no longer the
\* content it read.
Mutated == {p \in Paths : original_content[p] # None
                          /\ fs[p] # original_content[p]}

HasBackupOf(p, text) ==
    \E b \in DOMAIN backups : b[1] = PathName(p) /\ backups[b] = text

\* C1: at every moment of a run of main, every file fix_file has changed
\* has a backup in the backup directory that holds the content the file
\* had before the change (so the backup is there before the write and is
\* still there when the run ends).
C1_EveryMutatedFileHasItsBackup ==
    \A p \in Mutated : HasBackupOf(p, original_content[p])

\* fix_file has just returned for file_path.
Returned == pc = ret /\ file_path # None

\* The text fix_file computes from the content it read.
Transformed(text) == fix_standarderrorwrapper_calls(add_errorcode_import(text))

\* C2: when create_backup fails for a file, fix_file returns a failed
\* result with an error message and the file still has the content that
\* was read: a file whose backup failed is never written.
C2_BackupFailureLeavesFile ==
    \A p \in Paths :
        failure[p] = "backup" =>
            /\ fs[p] = original_content[p]
            /\ (Returned /\ file_path = p) =>
                   (~result.success /\ result.error = "backup error")

\* C2 witness: fix_file returned after a failed backup of a file that the
\* transformation would have changed.
C2_Witness ==
    /\ Returned
    /\ failure[file_path] = "backup"
    /\ Transformed(fs[file_path]) # fs[file_path]

\* C3: a file fix_file processed without a failure and whose content has no
\* occurrence of the marker is unchanged on disk and the result is skipped.
C3_NoMarkerIsSkipped ==
    (/\ Returned
     /\ failure[file_path] = "none"
     /\ original_content[file_path] # None
     /\ ~Contains(original_content[file_path], <<Marker>>))
    => (fs[file_path] = original_content[file_path] /\ result = Skipped)

\* The values of the code attribute of the blocks of a text, in order.
RECURSIVE CodeAttrsFrom(_, _)
CodeAttrsFrom(s, i) ==
    IF i > Len(s) THEN <<>>
    ELSE IF IsAt(s, CodeHead, i) /\ i + Len(CodeHead) <= Len(s)
    THEN <<s[i + Len(CodeHead)]>> \o CodeAttrsFrom(s, i + Len(CodeHead) + 1)
    ELSE CodeAttrsFrom(s, i + 1)

CodeAttrs(s) == CodeAttrsFrom(s, 1)

\* A deprecated call with well-formed literals: the message does not hold
\* its own quote character (the error codes and details of the segments
\* hold no quote and no brace).
WellFormed(d) ==
    d.kind = "call" /\ \A k \in 1..Len(d.msg) : d.msg[k] # d.q2

\* A deprecated call of the shape the pattern describes: no quote character
\* of any kind inside the literals.
Matchable(d) ==
    d.kind = "call" /\ \A k \in 1..Len(d.msg) : d.msg[k] \notin Quotes

CallIndexes(segs) == {i \in 1..Len(segs) : segs[i].kind = "call"}

\* The text has exactly one deprecated call, which is well formed and has a
\* code of the table, and nothing else that mentions the marker.
OneWellFormedMappedCall(segs) ==
    /\ Cardinality(CallIndexes(segs)) = 1
    /\ \A i \in 1..Len(segs) :
          IF segs[i].kind = "call"
          THEN WellFormed(segs[i]) /\ segs[i].code \in DOMAIN ERROR_CODE_MAPPING
          ELSE segs[i].kind \in {"text", "import_se", "import_ec", "require_se"}

TheCall(segs) == segs[CHOOSE i \in CallIndexes(segs) : TRUE]

\* C4: a text with exactly one well-formed deprecated call whose code is a
\* key of the table is rewritten to a text without the marker, with exactly
\* one block, whose code attribute is the mapped code.
C4_OneWellFormedCallRewritten ==
    (pc = "rewritten" /\ OneWellFormedMappedCall(input))
    => /\ ~Contains(content, <<Marker>>)
       /\ Count(content, BlockHead) = 1
       /\ CodeAttrs(content) = <<ERROR_CODE_MAPPING[TheCall(input).code]>>

\* The codes the blocks of the calls of the pattern's shape must carry.
RECURSIVE ExpectedCodes(_)
ExpectedCodes(segs) ==
    IF segs = <<>> THEN <<>>
    ELSE (IF Matchable(Head(segs))
          THEN <<IF Head(segs).code \in DOMAIN ERROR_CODE_MAPPING
                 THEN ERROR_CODE_MAPPING[Head(segs).code]
                 ELSE "UNKNOWN_ERROR">>
          ELSE <<>>)
         \o ExpectedCodes(Tail(segs))

\* C5: one call of fix_standarderrorwrapper_calls rewrites every call of
\* the pattern's shape: n such calls give n blocks, in the order of the
\* calls, each with the table's value for its own trimmed code, or with
\* UNKNOWN_ERROR when the code is not a key.
C5_EveryMatchRewritten ==
    pc = "rewritten"
    => /\ CodeAttrs(content) = ExpectedCodes(input)
       /\ Count(content, BlockHead) = Len(ExpectedCodes(input))

\* C5 witness: two calls were rewritten, one with a code of the table that
\* is padded with blanks and one with a code that is not in the table.
C5_Witness ==
    /\ pc = "rewritten"
    /\ Len(input) = 2
    /\ Matchable(input[1]) /\ input[1].spaced
    /\ Matchable(input[2]) /\ input[2].code \notin DOMAIN ERROR_CODE_MAPPING
    /\ CodeAttrs(content) = <<ERROR_CODE_MAPPING[input[1].code], "UNKNOWN_ERROR">>

\* C6: a second application of add_errorcode_import changes nothing, and
\* the number of ErrorCodes references stays what the first one left.
C6_ImportIdempotent ==
    [][(pc = "imported" /\ pc' = "imported twice")
       => /\ content' = content
          /\ Count(content', RequireErrorCodes) = Count(content, RequireErrorCodes)]_vars

\* C6 witness: the first application inserted the reference and the second
\* one has run.
C6_Witness ==
    /\ pc = "imported twice"
    /\ ~Contains(Flatten(input), RequireErrorCodes)
    /\ Count(content, RequireErrorCodes) = 1

\* The entries of errors that name a file.
ErrorsOf(p) == {i \in 1..Len(results.errors) : results.errors[i].file = p}

\* C7: when the loop of main has ended, every candidate was processed once,
\* in the order of the list, whatever failed on the way; the four counters
\* add up to the total, and errors has exactly one entry, with a message,
\* for each failed file and none for the others.
C7_EveryCandidateCounted ==
    (pc \in {"verify", "done", "crashed"} /\ discovery = "ok"
        /\ files_to_fix # <<>>)
    => /\ progress = files_to_fix
       /\ results.total = Len(files_to_fix)
       /\ results.complete + results.partial + results.skipped
            + results.failed = results.total
       /\ results.failed = Len(results.errors)
       /\ \A p \in Paths :
             Cardinality(ErrorsOf(p)) = IF failure[p] # "none" THEN 1 ELSE 0
       /\ \A i \in 1..Len(results.errors) :
             results.errors[i].error \in
                 {"File not found", "read error", "backup error", "write error"}

\* C7 witness: a run ended in which the first candidate failed and a later
\* one was fixed completely.
C7_Witness ==
    /\ pc = "done"
    /\ Len(files_to_fix) >= 2
    /\ failure[files_to_fix[1]] # "none"
    /\ results.complete >= 1

\* C8: when the discovery fails (find reports an error or cannot be run),
\* main returns normally with no candidate, having processed no file.
C8_DiscoveryFailureIsNoCandidates ==
    discovery \in {"error", "unavailable"}
    => /\ pc = "done"
       /\ files_to_fix = <<>>
       /\ progress = <<>>
       /\ Mutated = {}

\* The files that still have the marker.
Remaining == {p \in Paths : fs[p] # NoFile /\ Contains(fs[p], <<Marker>>)}

\* C9: the final scan prints one entry per file that still has the marker,
\* at most ten of them, and the number of the others when there are more.
C9_OneEntryPerRemainingFile ==
    (pc = "done" /\ discovery = "ok" /\ files_to_fix # <<>>)
    => LET n == Cardinality(Remaining)
       IN  /\ Len(shown) = IF n < DisplayLimit THEN n ELSE DisplayLimit
           /\ \A i \in 1..Len(shown) : shown[i] \in Remaining
           /\ more = IF n > DisplayLimit THEN n - DisplayLimit ELSE 0

\* fix_file has just returned for a file it read and backed up.
ReturnedAfterBackup ==
    Returned /\ original_content[file_path] # None
             /\ failure[file_path] \in {"none", "write"}

\* C10 as stated: for a file read and backed up, either the transformed
\* content equals the original, the file is not written and the result is
\* skipped, or it differs, the file holds the transformed content and the
\* result is complete exactly when that content has no marker.
C10_SkippedOrWritten ==
    ReturnedAfterBackup
    => LET o == original_content[file_path]
           t == Transformed(o)
       IN  \/ (t = o /\ fs[file_path] = o /\ result = Skipped)
           \/ (t # o /\ fs[file_path] = t
                 /\ result = Fixed(~Contains(t, <<Marker>>)))

\* C10 amended: as C10, with the outcome of a failing write: the content
\* differs, the write raises and the result is failed.  A file is written
\* only when its transformed content differs from the original.
C10_SkippedWrittenOrWriteFailed ==
    ReturnedAfterBackup
    => LET o == original_content[file_path]
           t == Transformed(o)
           w == failure[file_path] = "write"
       IN  /\ \/ (t = o /\ ~w /\ fs[file_path] = o /\ result = Skipped)
              \/ (t # o /\ ~w /\ fs[file_path] = t
                    /\ result = Fixed(~Contains(t, <<Marker>>)))
              \/ (t # o /\ w /\ result = Failed("write error"))
           /\ (fs[file_path] # o => t # o)

\* C10 witness: fix_file returned a partial fix: the file was written and
\* the written content still has the marker.
C10_Witness ==
    /\ ReturnedAfterBackup
    /\ result = Fixed(FALSE)
    /\ fs[file_path] # original_content[file_path]
    /\ Contains(fs[file_path], <<Marker>>)

====
